---- MODULE Spec2Model ----
(***************************************************************************)
(* The HTTP client of the Quack Companion extension (src/src/util/quack.ts)*)
(* as a state machine: the endpoint/token validator, checkAPIAccess, the   *)
(* four guideline operations and the streaming chat request.               *)
(*                                                                         *)
(* One call is in flight at a time.  op/phase/resp/result/thrown/shown/    *)
(* logged describe the latest call; the chat variables describe the        *)
(* stream of the latest chat request.                                      *)
(***************************************************************************)
EXTENDS Integers, Sequences, FiniteSets, TLC

VARIABLES
  settings,      \* live value of the workspace setting api.endpoint ("" = not set)
  config,        \* the module-level snapshot of section "api" (quack.ts line 8)
  globalState,   \* context.globalState: quackToken, isValidEndpoint, isValidToken
  pre,           \* history: settings and globalState as they were when checkAPIAccess was called
  op,            \* the latest operation called
  phase,         \* "idle" | "streaming" | "returned" | "threw"
  resp,          \* what fetch produced for the latest call
  body,          \* whether the response body of the latest call decodes as JSON
  result,        \* value the latest call returned
  thrown,        \* error the latest call failed with
  shown,         \* vscode.window.showErrorMessage calls of the latest call, in order
  logged,        \* console.error calls of the latest call, in order (error names)
  stream,        \* chat: the objects the server streams
  framing,       \* chat: how the server delimits the objects
  wire,          \* chat: bytes not yet handed to reader.read()
  calls,         \* chat: callback invocations, in order
  readerLocked,  \* chat: the reader holds the lock of response.body
  releaseCount,  \* chat: number of reader.releaseLock() calls
  nReads,        \* chat: reads that delivered a value
  aligned,       \* chat: every read so far held exactly the next object of the stream
  parseFailRead, \* chat: index of the read whose chunk did not parse (0 = none)
  transportErr,  \* chat: reader.read() rejected
  cbThrew        \* chat: a callback threw

envVars  == <<settings, config, globalState, pre>>
callVars == <<op, phase, resp, body, result, thrown, shown, logged>>
chatVars == <<stream, framing, wire, calls, readerLocked, releaseCount, nReads,
              aligned, parseFailRead, transportErr, cbThrew>>
vars     == <<envVars, callVars, chatVars>>

\* ----------------------------------------------------------------- bounds
MaxObjs == 2

\* ------------------------------------------------------------ HTTP, URLs
Statuses == {200, 204, 299, 300, 401, 404, 500}

\* Response.ok
Ok(status) == status >= 200 /\ status <= 299

\* Statuses whose Response.body is null
NullBodyStatuses == {204}

\* Values api.endpoint / endpointURL can hold; "" is the unset (falsy) value.
EndpointURLs == {"https://api.quackai.com", "localhost:8000"}

\* new URL(path, base) succeeds only for a base with a hierarchical scheme and an
\* authority; for any other base the constructor throws TypeError (Invalid URL).
CanBeBase(base) == base \in {"https://api.quackai.com"}

NoResp == [kind |-> "none", status |-> 0]

\* What `await fetch(...)` produces: a response, or a rejection (TypeError for a
\* network-level failure, any other exception otherwise).
FetchOutcomes ==
  [kind : {"http"}, status : Statuses]
    \cup {[kind |-> "TypeError", status |-> 0], [kind |-> "Error", status |-> 0]}

NoError == [name |-> "none", message |-> "", carries |-> {}]
NoValue == "none"

\* new Error(message): a message and nothing else
NewError(message) == [name |-> "Error", message |-> message, carries |-> {}]

InvalidURL == [name |-> "TypeError", message |-> "Invalid URL", carries |-> {}]

\* An error message shown to the user; status is the code interpolated in it (0: none).
Msg(text) == [text |-> text, status |-> 0]

StatusMessage(status) == [text |-> "Quack API returned status code", status |-> status]

\* The call record after the call returned v / failed with e.
Returns(o, r, b, v, msgs, logs) ==
  /\ op' = o /\ phase' = "returned" /\ resp' = r /\ body' = b /\ result' = v
  /\ thrown' = NoError /\ shown' = msgs /\ logged' = logs

Throws(o, r, b, e, msgs, logs) ==
  /\ op' = o /\ phase' = "threw" /\ resp' = r /\ body' = b /\ result' = NoValue
  /\ thrown' = e /\ shown' = msgs /\ logged' = logs

\* ------------------------------------------------- Token/Endpoint validator
VerifyResult(r) ==
  IF r.kind = "http"
  THEN IF Ok(r.status) THEN TRUE
       ELSE IF r.status = 401 THEN TRUE
       ELSE FALSE
  ELSE FALSE

verifyQuackEndpoint ==
  /\ phase # "streaming"
  /\ \E endpointURL \in EndpointURLs :
       IF ~CanBeBase(endpointURL)
       THEN Throws("verifyQuackEndpoint", NoResp, FALSE, InvalidURL, <<>>, <<>>)
       ELSE \E r \in FetchOutcomes :
              Returns("verifyQuackEndpoint", r, FALSE, VerifyResult(r), <<>>, <<>>)
  /\ UNCHANGED <<envVars, chatVars>>

\* Variant of APIAccessStatus whose catch block does not test the error's name.
APIAccessStatusMutant(r) ==
  IF r.kind = "http"
  THEN IF Ok(r.status) THEN "ok"
       ELSE IF r.status = 404 THEN "unknown-route"
       ELSE IF r.status = 401 THEN "expired-token"
       ELSE "other"
  ELSE "unreachable-endpoint"

APIAccessStatus(r) ==
  IF r.kind = "http"
  THEN IF Ok(r.status) THEN "ok"
       ELSE IF r.status = 404 THEN "unknown-route"
       ELSE IF r.status = 401 THEN "expired-token"
       ELSE "other"
  ELSE IF r.kind = "TypeError" THEN "unreachable-endpoint"
       ELSE "other"

getAPIAccessStatus ==
  /\ phase # "streaming"
  /\ \E endpointURL \in EndpointURLs :
       IF ~CanBeBase(endpointURL)
       THEN Throws("getAPIAccessStatus", NoResp, FALSE, InvalidURL, <<>>, <<>>)
       ELSE \E r \in FetchOutcomes :
              Returns("getAPIAccessStatus", r, FALSE, APIAccessStatus(r), <<>>, <<>>)
  /\ UNCHANGED <<envVars, chatVars>>

\* ----------------------------------------------------------- checkAPIAccess
checkAPIAccess ==
  /\ phase # "streaming"
  /\ pre' = [endpoint |-> settings, globalState |-> globalState]
  /\ IF config = ""
     THEN /\ globalState' = [globalState EXCEPT !.isValidEndpoint = FALSE]
          /\ Returns("checkAPIAccess", NoResp, FALSE, FALSE,
                     <<Msg("Configure your endpoint first")>>, <<>>)
     ELSE IF globalState.quackToken = ""
     THEN /\ globalState' = [globalState EXCEPT !.isValidToken = FALSE]
          /\ Returns("checkAPIAccess", NoResp, FALSE, FALSE,
                     <<Msg("Authenticate first")>>, <<>>)
     ELSE /\ globalState' = globalState
          /\ Returns("checkAPIAccess", NoResp, FALSE, TRUE, <<>>, <<>>)
  /\ UNCHANGED <<settings, config, chatVars>>

\* The extension shell (commands/authentication) writes the api.endpoint setting
\* and stores or clears the token; neither touches the snapshot held by quack.ts.
ConfigureEndpoint ==
  /\ phase # "streaming"
  /\ \E u \in EndpointURLs \cup {""} : u # settings /\ settings' = u
  /\ UNCHANGED <<config, globalState, pre, callVars, chatVars>>

StoreToken ==
  /\ phase # "streaming"
  /\ \E t \in {"", "token"} :
       /\ t # globalState.quackToken
       /\ globalState' = [globalState EXCEPT !.quackToken = t]
  /\ UNCHANGED <<settings, config, pre, callVars, chatVars>>

\* ---------------------------------------------------------- Guideline client
\* The body shared by fetchGuidelines, postGuideline, patchGuideline and
\* deleteGuideline: logLabel is what the catch block logs, genericMessage what it
\* shows, errorText the message of the Error thrown in the else branch and in the
\* catch block.
GuidelineCall(o, logLabel, genericMessage, errorText) ==
  /\ phase # "streaming"
  /\ \E endpointURL \in EndpointURLs :
       IF ~CanBeBase(endpointURL)
       THEN Throws(o, NoResp, FALSE, InvalidURL, <<>>, <<>>)
       ELSE \E r \in FetchOutcomes, b \in BOOLEAN :
              IF r.kind = "http" /\ Ok(r.status) /\ b
              THEN Returns(o, r, b, "record", <<>>, <<>>)
              ELSE IF r.kind = "http" /\ Ok(r.status)
              THEN \* response.json() rejects with SyntaxError: caught below
                   Throws(o, r, b, NewError(errorText), <<Msg(genericMessage)>>,
                          <<logLabel>>)
              ELSE IF r.kind = "http"
              THEN \* the throw of the else branch is inside the try: caught below
                   Throws(o, r, b, NewError(errorText),
                          <<StatusMessage(r.status), Msg(genericMessage)>>, <<logLabel>>)
              ELSE Throws(o, r, FALSE, NewError(errorText), <<Msg(genericMessage)>>,
                          <<logLabel>>)
  /\ UNCHANGED <<envVars, chatVars>>

FetchFailedMessage ==
  "Failed to fetch repository details. Make sure the repository exists and is public."

fetchGuidelines ==
  GuidelineCall("fetchGuidelines", "Error fetching repository details:",
                FetchFailedMessage, "Unable to fetch guidelines")

postGuideline ==
  GuidelineCall("postGuideline", "Error creating guideline:",
                "Failed to create guideline.", "Unable to create guideline")

patchGuideline ==
  GuidelineCall("patchGuideline", "Error patching guideline:",
                "Failed to patch guideline.", "Unable to patch guideline")

deleteGuideline ==
  GuidelineCall("deleteGuideline", "Error patching guideline:",
                "Failed to patch guideline.", "Unable to patch guideline")

GuidelineOps == {"fetchGuidelines", "postGuideline", "patchGuideline", "deleteGuideline"}

GenericMessageOf(o) ==
  IF o = "fetchGuidelines" THEN FetchFailedMessage
  ELSE IF o = "postGuideline" THEN "Failed to create guideline."
  ELSE "Failed to patch guideline."

\* ---------------------------------------------------------- Chat stream client
Contents == {"Hel", "lo"}

\* What the server can put on the stream: a message object
\* {"message":{"content":c}}, a JSON object without a message ({"detail":...}),
\* or text that is not JSON.
Items ==
  [k : {"msg"}, content : Contents]
    \cup {[k |-> "nomsg", content |-> ""], [k |-> "bad", content |-> ""]}

Streams == UNION {[1..n -> Items] : n \in 0..MaxObjs}

Framings == {"none", "newline"}

\* The bytes of one item, as tokens: brace, payload, brace.
Serialize(o) ==
  IF o.k = "msg" THEN <<"{", o.content, "}">>
  ELSE IF o.k = "nomsg" THEN <<"{", "detail", "}">>
  ELSE <<"#">>

Frame(o, f) == Serialize(o) \o (IF f = "newline" THEN <<"\n">> ELSE <<>>)

RECURSIVE Wire(_, _)
Wire(s, f) == IF s = <<>> THEN <<>> ELSE Frame(Head(s), f) \o Wire(Tail(s), f)

\* new TextDecoder().decode(value): the modelled payloads are ASCII, one character
\* token per byte token.
TextDecode(value) == [i \in 1..Len(value) |-> value[i]]

RECURSIVE TrimLeft(_)
TrimLeft(t) == IF t # <<>> /\ Head(t) = "\n" THEN TrimLeft(Tail(t)) ELSE t

RECURSIVE TrimRight(_)
TrimRight(t) ==
  IF t # <<>> /\ t[Len(t)] = "\n" THEN TrimRight(SubSeq(t, 1, Len(t) - 1)) ELSE t

\* JSON.parse(text): surrounding whitespace is skipped; the text must then be exactly
\* one JSON value, anything else is a SyntaxError.
JSONParse(text) ==
  LET t == TrimRight(TrimLeft(text)) IN
    IF Len(t) = 3 /\ t[1] = "{" /\ t[3] = "}" /\ t[2] \in Contents
    THEN [ok |-> TRUE, value |-> [k |-> "msg", content |-> t[2]]]
    ELSE IF Len(t) = 3 /\ t[1] = "{" /\ t[3] = "}" /\ t[2] = "detail"
    THEN [ok |-> TRUE, value |-> [k |-> "nomsg", content |-> ""]]
    ELSE [ok |-> FALSE, value |-> [k |-> "bad", content |-> ""]]

Chunk(content) == [cb |-> "onChunkReceived", arg |-> content]
End == [cb |-> "onEnd", arg |-> ""]

\* The try of line 212 encloses the whole while loop: any exception leaves the loop.
\* Variants: the try inside the loop body (a parse failure is skipped), and a loop
\* left after its first iteration.
ExitsLoopMutant(err) == err \notin {"none", "SyntaxError"}

ExitsAfterFirstChunk(err) == TRUE

ExitsLoop(err) == err # "none"

\* finally { reader.releaseLock() } runs on every exit of the inner try.
\* Variant: releaseLock() at the end of the try block instead of in finally.
ReleasedOnExitMutant(err) == err = "none"

ReleasedOnExit(err) == TRUE

\* Leaving the inner try/catch/finally, then the end of the function: the inner
\* catch only logs, so the call resolves.
FinishStreaming(err) ==
  /\ logged' = IF err = "none" THEN logged ELSE Append(logged, err)
  /\ IF ReleasedOnExit(err)
     THEN readerLocked' = FALSE /\ releaseCount' = releaseCount + 1
     ELSE UNCHANGED <<readerLocked, releaseCount>>
  /\ phase' = "returned"
  /\ result' = "undefined"
  /\ UNCHANGED <<op, resp, body, thrown, shown>>

ChatState(s, f, w, locked) ==
  /\ stream' = s /\ framing' = f /\ wire' = w /\ calls' = <<>>
  /\ readerLocked' = locked /\ releaseCount' = 0 /\ nReads' = 0 /\ aligned' = TRUE
  /\ parseFailRead' = 0 /\ transportErr' = FALSE /\ cbThrew' = FALSE

\* postChatMessage up to the first reader.read().
postChatMessage ==
  /\ phase # "streaming"
  /\ \E endpointURL \in EndpointURLs :
       IF ~CanBeBase(endpointURL)
       THEN /\ Throws("postChatMessage", NoResp, FALSE, InvalidURL, <<>>, <<>>)
            /\ ChatState(<<>>, "none", <<>>, FALSE)
       ELSE \E r \in FetchOutcomes :
              IF r.kind # "http"
              THEN /\ Throws("postChatMessage", r, FALSE,
                             NewError("Unable to send chat message"),
                             <<Msg("Invalid API request.")>>,
                             <<"Error sending Quack API request:">>)
                   /\ ChatState(<<>>, "none", <<>>, FALSE)
              ELSE IF r.status \in NullBodyStatuses
              THEN /\ Returns("postChatMessage", r, FALSE, "undefined", <<>>, <<>>)
                   /\ ChatState(<<>>, "none", <<>>, FALSE)
              ELSE \E s \in Streams, f \in Framings :
                     /\ op' = "postChatMessage" /\ phase' = "streaming"
                     /\ resp' = r /\ body' = TRUE /\ result' = NoValue
                     /\ thrown' = NoError /\ shown' = <<>> /\ logged' = <<>>
                     /\ ChatState(s, f, Wire(s, f), TRUE)
  /\ UNCHANGED envVars

\* reader.read() resolves with a value: some non-empty prefix of the pending bytes.
ReadValue ==
  /\ phase = "streaming"
  /\ \E k \in 1..Len(wire), throws \in BOOLEAN :
       LET value   == SubSeq(wire, 1, k)
           parsed  == JSONParse(TextDecode(value))
           invoked == parsed.ok /\ parsed.value.k = "msg"
           err     == IF ~parsed.ok THEN "SyntaxError"
                      ELSE IF parsed.value.k # "msg" THEN "TypeError"
                      ELSE IF throws THEN "CallbackError"
                      ELSE "none"
       IN /\ wire' = SubSeq(wire, k + 1, Len(wire))
          /\ nReads' = nReads + 1
          /\ aligned' = (/\ aligned
                         /\ nReads < Len(stream)
                         /\ value = Frame(stream[nReads + 1], framing))
          /\ calls' = IF invoked THEN Append(calls, Chunk(parsed.value.content))
                      ELSE calls
          /\ parseFailRead' = IF err = "SyntaxError" THEN nReads + 1 ELSE parseFailRead
          /\ cbThrew' = (cbThrew \/ err = "CallbackError")
          /\ IF ExitsLoop(err)
             THEN FinishStreaming(err)
             ELSE UNCHANGED <<callVars, readerLocked, releaseCount>>
  /\ UNCHANGED <<envVars, stream, framing, transportErr>>

\* reader.read() resolves with done: break, then onEnd().
ReadDone ==
  /\ phase = "streaming"
  /\ wire = <<>>
  /\ \E throws \in BOOLEAN :
       /\ calls' = Append(calls, End)
       /\ cbThrew' = (cbThrew \/ throws)
       /\ FinishStreaming(IF throws THEN "CallbackError" ELSE "none")
  /\ UNCHANGED <<envVars, stream, framing, wire, nReads, aligned, parseFailRead,
                 transportErr>>

\* reader.read() rejects: the transport failed mid-stream.
ReadError ==
  /\ phase = "streaming"
  /\ transportErr' = TRUE
  /\ FinishStreaming("TransportError")
  /\ UNCHANGED <<envVars, stream, framing, wire, calls, nReads, aligned,
                 parseFailRead, cbThrew>>

\* ------------------------------------------------------------------- Init
NoChat ==
  /\ stream = <<>> /\ framing = "none" /\ wire = <<>> /\ calls = <<>>
  /\ readerLocked = FALSE /\ releaseCount = 0 /\ nReads = 0 /\ aligned = TRUE
  /\ parseFailRead = 0 /\ transportErr = FALSE /\ cbThrew = FALSE

NoCall ==
  /\ op = "none" /\ phase = "idle" /\ resp = NoResp /\ body = FALSE
  /\ result = NoValue /\ thrown = NoError /\ shown = <<>> /\ logged = <<>>

\* The module is loaded with whatever api.endpoint holds at that moment, and the
\* persisted globalState of earlier sessions.
Init ==
  /\ settings \in EndpointURLs \cup {""}
  /\ config = settings
  /\ globalState \in [quackToken : {"", "token"}, isValidEndpoint : BOOLEAN,
                      isValidToken : BOOLEAN]
  /\ pre = [endpoint |-> settings, globalState |-> globalState]
  /\ NoCall
  /\ NoChat

Next ==
  \/ verifyQuackEndpoint
  \/ getAPIAccessStatus
  \/ checkAPIAccess
  \/ ConfigureEndpoint
  \/ StoreToken
  \/ fetchGuidelines
  \/ postGuideline
  \/ patchGuideline
  \/ deleteGuideline

Spec == Init /\ [][Next]_vars

\* A chat session: the endpoint is configured and a token stored.
InitChat ==
  /\ settings = "https://api.quackai.com"
  /\ config = settings
  /\ globalState = [quackToken |-> "token", isValidEndpoint |-> TRUE,
                    isValidToken |-> TRUE]
  /\ pre = [endpoint |-> settings, globalState |-> globalState]
  /\ NoCall
  /\ NoChat

NextChat ==
  \/ postChatMessage
  \/ ReadValue
  \/ ReadDone
  \/ ReadError

SpecChat == InitChat /\ [][NextChat]_vars

\* =================================================================== claims
Finished == phase \in {"returned", "threw"}

IsChat == op = "postChatMessage"

HttpOk == resp.kind = "http" /\ Ok(resp.status)

ContentsOf(s) == [i \in 1..Len(s) |-> Chunk(s[i].content)]

AllMessages(s) == \A i \in 1..Len(s) : s[i].k = "msg"

CountOf(e, s) == Cardinality({i \in 1..Len(s) : s[i] = e})

\* C1: when the initial POST of a chat request fails (a non-2xx status, or a network
\* error before streaming begins) no callback is ever invoked and the call, once
\* finished, has failed with an error.
C1_FailedPostInvokesNoCallback ==
  (IsChat /\ resp.kind # "none" /\ ~HttpOk)
    => /\ calls = <<>>
       /\ (Finished => phase = "threw")

\* C2: a chat request whose POST succeeds and whose reads deliver the message objects
\* c1..cn one per read, then end-of-stream, invokes onChunk with the contents of
\* c1..cn in arrival order, then onEnd exactly once and last, and surfaces no error.
CleanStream ==
  /\ IsChat /\ HttpOk /\ body
  /\ AllMessages(stream) /\ aligned /\ ~transportErr /\ ~cbThrew

C2_ChunksInOrderThenEnd ==
  CleanStream
    => /\ phase # "threw"
       /\ shown = <<>> /\ thrown = NoError /\ logged = <<>>
       /\ (phase = "streaming" => calls = SubSeq(ContentsOf(stream), 1, nReads))
       /\ (phase = "returned" => calls = ContentsOf(stream) \o <<End>>)

C2_Witness ==
  /\ CleanStream /\ phase = "returned"
  /\ calls = <<Chunk("Hel"), Chunk("lo"), End>>

\* C3: a finished chat request is either Completed (returned normally, onEnd invoked
\* exactly once) or Failed (failed with an error, onEnd never invoked); stated for
\* the case the claim singles out, a transport error during a read, which must end
\* the request Failed.
C3_TransportErrorEndsFailed ==
  (IsChat /\ Finished /\ transportErr)
    => (phase = "threw" /\ CountOf(End, calls) = 0)

\* C4: for every outcome of the validation request getAPIAccessStatus returns one of
\* the five classifications: 2xx -> ok, 404 -> unknown-route, 401 -> expired-token,
\* network failure -> unreachable-endpoint, anything else -> other.
C4_FiveWayClassification ==
  (op = "getAPIAccessStatus" /\ resp.kind # "none")
    => /\ phase = "returned"
       /\ result \in {"ok", "unknown-route", "expired-token",
                      "unreachable-endpoint", "other"}
       /\ (result = "ok" <=> HttpOk)
       /\ (result = "unknown-route" <=> (resp.kind = "http" /\ resp.status = 404))
       /\ (result = "expired-token" <=> (resp.kind = "http" /\ resp.status = 401))
       /\ (result = "unreachable-endpoint" <=> resp.kind = "TypeError")
       /\ (result = "other" <=>
             \/ resp.kind = "Error"
             \/ (resp.kind = "http" /\ ~Ok(resp.status)
                   /\ resp.status \notin {401, 404}))

C4_Witness ==
  /\ op = "getAPIAccessStatus" /\ phase = "returned"
  /\ resp.kind = "TypeError" /\ result = "unreachable-endpoint"

\* C5: verifyQuackEndpoint never throws and returns true exactly when the validation
\* route answered 2xx or 401.
C5_VerifyEndpointTotal ==
  (op = "verifyQuackEndpoint")
    => /\ phase = "returned"
       /\ (result = TRUE <=> (HttpOk \/ (resp.kind = "http" /\ resp.status = 401)))

\* C6: a guideline operation returns a record without any error message on 2xx
\* (with a body that decodes); on
\* any other status it fails with an error carrying the status and shows the
\* status-code message; on a transport failure it shows the generic error instead.
C6_GuidelineErrorPaths ==
  (op \in GuidelineOps /\ resp.kind # "none")
    => /\ ((HttpOk /\ body) => (phase = "returned" /\ shown = <<>>))
       /\ ((resp.kind = "http" /\ ~Ok(resp.status))
             => /\ phase = "threw"
                /\ resp.status \in thrown.carries
                /\ shown = <<StatusMessage(resp.status)>>)
       /\ (resp.kind # "http"
             => (phase = "threw" /\ shown = <<Msg(GenericMessageOf(op))>>))

\* C7: checkAPIAccess returns true exactly when, at the time of the call, an
\* endpoint is configured and a token is stored; with no endpoint it shows an error
\* and clears only quack.isValidEndpoint; with an endpoint and no token it shows an
\* error and clears only quack.isValidToken; returning true it changes nothing.
C7_AccessPrecondition ==
  (op = "checkAPIAccess")
    => /\ (result = TRUE <=> (pre.endpoint # "" /\ pre.globalState.quackToken # ""))
       /\ (pre.endpoint = ""
             => /\ shown # <<>>
                /\ globalState.isValidEndpoint = FALSE
                /\ globalState.isValidToken = pre.globalState.isValidToken)
       /\ ((pre.endpoint # "" /\ pre.globalState.quackToken = "")
             => /\ shown # <<>>
                /\ globalState.isValidToken = FALSE
                /\ globalState.isValidEndpoint = pre.globalState.isValidEndpoint)
       /\ (result = TRUE
             => /\ shown = <<>>
                /\ globalState.isValidEndpoint = pre.globalState.isValidEndpoint
                /\ globalState.isValidToken = pre.globalState.isValidToken)

\* C8: once a chat request has acquired the reader, the reader stays locked while the
\* request streams and is released exactly once on every way the request finishes.
C8_ReaderReleasedOnce ==
  IsChat
    => /\ (phase = "streaming" => (readerLocked /\ releaseCount = 0))
       /\ (Finished => (~readerLocked /\ releaseCount = (IF body THEN 1 ELSE 0)))

C8_Witness ==
  /\ IsChat /\ phase = "returned" /\ body
  /\ transportErr /\ calls # <<>>
  /\ ~readerLocked /\ releaseCount = 1

C10_SegmentationIndependent ==
  (IsChat /\ Finished /\ HttpOk /\ body /\ AllMessages(stream)
     /\ ~transportErr /\ ~cbThrew)
    => calls = ContentsOf(stream) \o <<End>>

====
